---- MODULE Spec2Model ----
(***************************************************************************)
(* A model of the Bitbucket backend of Perceval                            *)
(* (perceval/backends/bitbucket/bitbucket.py): the cursor paginator        *)
(* BitbucketClient.fetch_items, the user cache BitbucketClient.user and    *)
(* the two fetch generators Bitbucket.__fetch_issues and                   *)
(* Bitbucket.__fetch_pull_requests.                                        *)
(*                                                                         *)
(* The upstream server and the HTTP transport (HttpClient.fetch of the     *)
(* perceval core library) are the environment: a request either returns    *)
(* the document the server holds for the URL or raises one of Errors.      *)
(***************************************************************************)
EXTENDS Integers, Sequences, FiniteSets, TLC

VARIABLES
    pages,       \* upstream: the pages of the listed resource, in server order
    pg,          \* the fetch_items generator over the listed resource
    ntransport,  \* number of transport calls (BitbucketClient.fetch) issued so far
    lastReq,     \* the most recent transport call: its url and its payload
    fault,       \* the most recent transport call that raised, and where
    cl,          \* the BitbucketClient: its token, its mode, its fetch in progress
    npulls,      \* number of times the caller has asked pg for a page (next())
    got,         \* the raw pages pg has handed to its caller, in order
    users,       \* BitbucketClient._users: display name -> raw profile text
    nfetch,      \* per display name, the transport calls user() has made for it
    nok,         \* per display name, those of them that returned a response
    requested,   \* the profile urls user() has passed to the transport
    lastCall,    \* the most recent user() call: its arguments and what it gave
    args,        \* Bitbucket.fetch(category, from_date, to_date, filter_classified)
    pc,          \* where the fetch generator of the category stands
    pos,         \* index in the values of the current list page
    fld,         \* index in TARGET_ISSUE_FIELDS / TARGET_PULL_FIELDS
    cur,         \* the issue or pull request being enriched
    todo,        \* the sub-fetches still to run for cur, the first one running
    subpg,       \* the fetch_items generator of the running sub-fetch
    subpos,      \* index in the values of the current page of subpg
    hold,        \* the list the running sub-fetch has collected so far
    raised,      \* the exception that left the fetch generator, if any
    yielded,     \* the ids of the items the fetch generator has yielded, in order
    served,      \* the ids of the items of the list pages handed over, in order
    cut,         \* the first item seen with updated_on > to_date, if any
    env,         \* the extent of the upstream data of this run (never changes)
    runs         \* two invocations of fetch: which one runs, what the first yielded,
                 \* what the second has yielded, what the upstream has answered

pagerVars == <<pages, pg, npulls, got>>
netVars == <<ntransport, lastReq, fault, cl>>
userVars == <<users, nfetch, nok, requested, lastCall>>
fetchVars == <<args, pc, pos, fld, cur, todo, subpg, subpos, hold, raised, yielded,
               served, cut, env, runs>>

vars == <<pages, pg, ntransport, lastReq, fault, cl, npulls, got,
          users, nfetch, nok, requested, lastCall,
          args, pc, pos, fld, cur, todo, subpg, subpos, hold, raised, yielded, served,
          cut, env, runs>>

----------------------------------------------------------------------------
(* Bounds of the model                                                     *)

NPages == 3        \* most pages the upstream holds for one resource
MaxPageLen == 2    \* most items in the values array of one page
MaxPulls == 4      \* most next() calls one caller makes on a page generator
NAccounts == 3     \* upstream accounts; accounts 2k-1 and 2k share a display name
MaxUserFetches == 2 \* most transport calls user() makes for one display name
NListPages == 2    \* most pages of the issue / pull request list of one fetch
MaxDate == 2       \* dates (updated_on, to_date) are 1..MaxDate
MaxSubPages == 1   \* most pages of one comments / activity / commits resource
MaxSubLen == 1     \* most entries in one page of such a resource
MaxFaultPages == 2 \* most pages of such a resource in SpecFaults
NTokens == 2       \* access tokens the token exchange may grant
MaxCalls == 3      \* most fetch calls on one client in SpecClient
MaxTwiceUsers == 1 \* accounts the items of SpecTwice refer to

----------------------------------------------------------------------------
(* Values                                                                  *)

BITBUCKET_API_URL == "https://api.bitbucket.org/2.0"
Owner == "owner"
Repository == "repository"

NoDate == 0                       \* None / a falsy from_date
\* perceval.utils: the first and the last date of the defaults of fetch
DEFAULT_DATETIME == 1
DEFAULT_LAST_DATETIME == MaxDate
EmptyPayload == [k \in {} |-> ""] \* payload = {}
None == <<>>                      \* Python's None for `items`

\* The exceptions super().fetch can raise (requests.exceptions)
Errors == {"HTTPError", "RetryError", "ConnectionError"}

\* What a transport call gives its caller: a response with a document, or an
\* exception
Ok(doc) == [ok |-> TRUE, doc |-> doc]
Raise(error) == [ok |-> FALSE, error |-> error]
Failures == {Raise(e) : e \in Errors}

\* urijoin("issues"), urijoin("pullrequests", str(n), "commits"), ...
ListPath(coll) == [coll |-> coll, num |-> 0, sub |-> ""]
SubPath(coll, num, sub) == [coll |-> coll, num |-> num, sub |-> sub]

\* urijoin(self.base_url, 'repositories', self.owner, self.repository, path)
FirstUrl(path) ==
    [base_url |-> BITBUCKET_API_URL, owner |-> Owner, repository |-> Repository,
     path |-> path]

\* The url the server writes into the "next" key of a page: it leads to page i
NextUrl(i) == [literal |-> "next", page |-> i]

Req(url, payload) == [url |-> url, payload |-> payload]
NoReq == [none |-> TRUE]

----------------------------------------------------------------------------
(* The upstream: pages of JSON documents {"values": [...], "next": url}     *)

ItemId(i, k) == (i - 1) * (MaxPageLen + 1) + k

\* What the server may hold at one page: the updated_on of each item of values
\* (has_values = FALSE: the document has no "values" key) and whether it
\* carries a "next" key
PageShapes(dates) ==
    [dates : UNION {[1..k -> dates] : k \in 0..MaxPageLen},
     has_values : {TRUE}, has_next : BOOLEAN]
    \cup [dates : {<<>>}, has_values : {FALSE}, has_next : BOOLEAN]

\* The document of page i of n; the next link of the last page leads back to page 1
MkPage(i, n, shape) ==
    LET values == [k \in 1..Len(shape.dates) |->
                      [id |-> ItemId(i, k), updated_on |-> shape.dates[k]]]
        next == NextUrl(IF i < n THEN i + 1 ELSE 1)
    IN  CASE shape.has_values /\ shape.has_next -> [values |-> values, next |-> next]
          [] shape.has_values /\ ~shape.has_next -> [values |-> values]
          [] ~shape.has_values /\ shape.has_next -> [next |-> next]
          [] OTHER -> [other |-> TRUE]

Worlds(dates) ==
    UNION {{[i \in 1..n |-> MkPage(i, n, sh[i])] : sh \in [1..n -> PageShapes(dates)]}
           : n \in 1..NPages}

\* The page the server returns for a url of the listed resource
Serve(ps, url) == IF "literal" \in DOMAIN url THEN ps[url.page] ELSE ps[1]

HasNext(data) == "next" \in DOMAIN data
ValuesOf(data) == IF "values" \in DOMAIN data THEN data.values ELSE <<>>

----------------------------------------------------------------------------
(* BitbucketClient: the page generators                                    *)

\* payload of issues(from_date)
issues_payload(from_date) ==
    IF from_date # NoDate
    THEN [sort |-> "updated_on", q |-> from_date]
    ELSE [sort |-> "updated_on"]

\* payload of pulls(from_date)
pulls_payload(from_date) ==
    IF from_date # NoDate
    THEN [sort |-> "updated_on", state |-> "MERGED+OPEN+DECLINED+SUPERSEDED",
          q |-> from_date]
    ELSE [sort |-> "updated_on", state |-> "MERGED+OPEN+DECLINED+SUPERSEDED"]

\* fetch_items(path, payload) called: a generator whose body has not started
fetch_items(path, payload) ==
    [pc |-> "created", path |-> path, payload |-> payload,
     page |-> 0, items |-> None, data |-> [other |-> TRUE], error |-> ""]

issues(from_date) == fetch_items(ListPath("issues"), issues_payload(from_date))
pulls(from_date) == fetch_items(ListPath("pullrequests"), pulls_payload(from_date))
pull_commits(pr_number) ==
    fetch_items(SubPath("pullrequests", pr_number, "commits"), EmptyPayload)
issue_comments(issue_number) ==
    fetch_items(SubPath("issues", issue_number, "comments"), EmptyPayload)
pull_review_comments(pr_number) ==
    fetch_items(SubPath("pullrequests", pr_number, "comments"), EmptyPayload)
pull_activities(pr_number) ==
    fetch_items(SubPath("pullrequests", pr_number, "activity"), EmptyPayload)

\* Python's truth value of `items` (the response text, or None)
Truthy(items) == items # None

\* The generator's body runs only between a next() of its caller and its
\* next yield
PagerRuns_prefetch(p) == p.pc \in {"resumed", "suspended"}
PagerRuns(p) == p.pc = "resumed"

\* The transport call the body makes when it runs from where it stands:
\* the first page on the assembled url, a later page on data['next'], both
\* with the payload of the call
PagerRequest_samepage(p) ==
    IF p.page = 0 \/ HasNext(p.data)
    THEN Req(FirstUrl(p.path), p.payload)
    ELSE NoReq
PagerRequest(p) ==
    IF p.page = 0
    THEN Req(FirstUrl(p.path), p.payload)
    ELSE IF HasNext(p.data)
         THEN Req(p.data["next"], p.payload)
         ELSE NoReq

\* The body up to the `while items` test: outcome is what the transport call
\* gave, a document or an exception; without a call, items stays None
PagerAdvance(p, outcome) ==
    IF PagerRequest(p) = NoReq
    THEN [p EXCEPT !.pc = "loop", !.items = None]
    ELSE IF ~outcome.ok
         THEN [p EXCEPT !.pc = "raised", !.items = None, !.error = outcome.error]
         ELSE [p EXCEPT !.pc = "loop", !.items = <<outcome.doc>>,
                        !.data = outcome.doc, !.page = p.page + 1]

\* `while items: yield items`
PagerLoop_values(p) ==
    IF Truthy(p.items) /\ ValuesOf(p.data) # <<>>
    THEN [p EXCEPT !.pc = "suspended"]
    ELSE [p EXCEPT !.pc = "finished"]
PagerLoop(p) ==
    IF Truthy(p.items)
    THEN [p EXCEPT !.pc = "suspended"]
    ELSE [p EXCEPT !.pc = "finished"]

\* the page of the resource a url names
UrlPage(url) == IF "literal" \in DOMAIN url THEN url.page ELSE 1

\* where a request comes from: a profile, the running sub-fetch, or the list
NoFault == [none |-> TRUE]
Origin(req) ==
    IF "profile" \in DOMAIN req.url THEN "user"
    ELSE IF pc = "sub" THEN todo[1]
    ELSE "list"

\* BitbucketClient.__init__ and _extract_access_token: tokens are 1..NTokens
NoToken == 0
Tokens == 1..NTokens
NoClient ==
    [state |-> "none", from_archive |-> FALSE, access_token |-> NoToken,
     bearer |-> NoToken, exchanges |-> 0, calls |-> 0, step |-> 0, trace |-> <<>>,
     nconsult |-> 0, nrequest |-> 0, nresponse |-> 0, nupdate |-> 0, carried |-> {}]

\* `if not self.from_archive: self._extract_access_token(...)`
derives_token_always(from_archive) == TRUE
derives_token(from_archive) == ~from_archive

\* the client __init__ leaves: exchange is what the token exchange gave, the
\* access token or an exception (of requests.post, or the KeyError of a
\* response without 'access_token'), which leaves no client
constructed(from_archive, exchange) ==
    IF ~derives_token(from_archive)
    THEN [NoClient EXCEPT !.state = "ready", !.from_archive = from_archive]
    ELSE IF exchange.ok
    THEN [NoClient EXCEPT !.state = "ready", !.from_archive = from_archive,
                          !.access_token = exchange.doc, !.bearer = exchange.doc,
                          !.exchanges = 1]
    ELSE [NoClient EXCEPT !.state = "broken", !.from_archive = from_archive,
                          !.exchanges = 1]

\* a client constructed live, its token granted
LiveClient == constructed(FALSE, Ok(1))

\* BitbucketClient.fetch: the calls its body makes, in order
fetch_steps_unconditional(from_archive) ==
    <<"sleep_for_rate_limit", "super_fetch", "update_rate_limit">>
fetch_steps(from_archive) ==
    IF from_archive THEN <<"super_fetch">>
    ELSE <<"sleep_for_rate_limit", "super_fetch", "update_rate_limit">>

\* fetch is called
begin(c) == [c EXCEPT !.state = "infetch", !.step = 1, !.trace = <<>>, !.calls = @ + 1]

\* the call leaves fetch with an exception
leave(c) == [c EXCEPT !.state = "ready", !.step = 0, !.trace = Append(@, "raise")]

\* the body goes on after a call that returned: to its next call, or `return response`
advance(c) ==
    IF c.step < Len(fetch_steps(c.from_archive))
    THEN [c EXCEPT !.step = @ + 1]
    ELSE [c EXCEPT !.state = "ready", !.step = 0, !.trace = Append(@, "return")]

\* the body makes its next call; outcome is what that call gives
step(c, outcome) ==
    LET name == fetch_steps(c.from_archive)[c.step]
        d == CASE name = "sleep_for_rate_limit" ->
                    [c EXCEPT !.nconsult = @ + 1, !.trace = Append(@, "consult")]
               [] name = "super_fetch" ->
                    [c EXCEPT !.nrequest = @ + 1, !.trace = Append(@, "request"),
                              !.carried = @ \cup {c.bearer},
                              !.nresponse = @ + (IF outcome.ok THEN 1 ELSE 0)]
               [] name = "update_rate_limit" ->
                    [c EXCEPT !.nupdate = @ + 1, !.trace = Append(@, "update")]
    IN  IF outcome.ok THEN advance(d) ELSE leave(d)

\* one whole fetch whose request gives outcome, the tracker calls returning
RECURSIVE run(_, _)
run(c, outcome) ==
    IF c.state # "infetch" THEN c
    ELSE run(step(c, IF fetch_steps(c.from_archive)[c.step] = "super_fetch"
                     THEN outcome ELSE Ok(None)), outcome)
fetched(c, outcome) == run(begin(c), outcome)

\* the request on the wire: super().fetch(url, payload, ...)
Wire(req, outcome) ==
    /\ ntransport' = ntransport + 1
    /\ lastReq' = req
    /\ fault' = IF outcome.ok THEN fault
                ELSE [origin |-> Origin(req), error |-> outcome.error,
                      page |-> UrlPage(req.url),
                      item |-> IF "id" \in DOMAIN cur THEN cur.id ELSE 0]

\* BitbucketClient.fetch, as far as the callers see it: one transport call,
\* which returns a response or raises
Transport(req, outcome) ==
    /\ Wire(req, outcome)
    /\ cl' = fetched(cl, outcome)

----------------------------------------------------------------------------
(* BitbucketClient.user and the users cache                                *)

\* Display names are coded 1..; accounts 1 and 2 share display name 1,
\* accounts 3 and 4 share display name 2, ...
DisplayName(a) == (a + 1) \div 2
ProfileUrl(a) == [profile |-> a]
Accounts == {[url |-> ProfileUrl(a), display_name |-> DisplayName(a)] : a \in 1..NAccounts}
Names == {acc.display_name : acc \in Accounts}

\* the raw profile text the server holds at a profile url
ProfileAt(url) == [profile_text_of |-> url.profile]

\* the key of the cache entry of a user: self._users[name]
user_key_byurl(url_user, name) == url_user.profile
user_key(url_user, name) == name

\* `if name in self._users`
user_hit_never(cache, url_user, name) == FALSE
user_hit(cache, url_user, name) == user_key(url_user, name) \in DOMAIN cache

\* the transport call of user(url_user, name): self.fetch(url_user), on a miss
user_request(cache, url_user, name) ==
    IF user_hit(cache, url_user, name) THEN NoReq ELSE Req(url_user, EmptyPayload)

\* the cache after user(url_user, name), its transport call having given outcome
user_store_nothing(cache, url_user, name, outcome) == cache
user_store_failed(cache, url_user, name, outcome) ==
    IF user_hit(cache, url_user, name)
    THEN cache
    ELSE [k \in DOMAIN cache \cup {user_key(url_user, name)} |->
             IF k # user_key(url_user, name) THEN cache[k]
             ELSE IF outcome.ok THEN outcome.doc ELSE ProfileAt(url_user)]
user_store(cache, url_user, name, outcome) ==
    IF user_hit(cache, url_user, name) \/ ~outcome.ok
    THEN cache
    ELSE [k \in DOMAIN cache \cup {user_key(url_user, name)} |->
             IF k = user_key(url_user, name) THEN outcome.doc ELSE cache[k]]

\* what user(url_user, name) gives its caller: the cached text, the fetched
\* text, or the exception of the transport call
user_return(cache, url_user, name, outcome) ==
    IF user_hit(cache, url_user, name)
    THEN Ok(cache[user_key(url_user, name)])
    ELSE outcome

NoCall == [url |-> ProfileUrl(0), name |-> 0, hit |-> FALSE, result |-> Raise("none")]

InitUsers ==
    /\ users = [k \in {} |-> ""]
    /\ nfetch = [n \in Names |-> 0]
    /\ nok = [n \in Names |-> 0]
    /\ requested = {}
    /\ lastCall = NoCall

\* One call user(url_user, name) with the outcome of its transport call, if any
UserCall(url_user, name, outcome) ==
    LET req == user_request(users, url_user, name)
    IN  /\ users' = user_store(users, url_user, name, outcome)
        /\ lastCall' = [url |-> url_user, name |-> name,
                        hit |-> user_hit(users, url_user, name),
                        result |-> user_return(users, url_user, name, outcome)]
        /\ IF req = NoReq
           THEN UNCHANGED <<ntransport, lastReq, fault, cl, nfetch, nok, requested>>
           ELSE /\ Transport(req, outcome)
                /\ nfetch' = [nfetch EXCEPT ![name] = @ + 1]
                /\ nok' = [nok EXCEPT ![name] = @ + (IF outcome.ok THEN 1 ELSE 0)]
                /\ requested' = requested \cup {req.url}

----------------------------------------------------------------------------
(* Bitbucket: the fetch generators __fetch_issues, __fetch_pull_requests   *)

CATEGORY_ISSUE == "issue"
CATEGORY_PULL_REQUEST == "pull_request"
CATEGORIES == {CATEGORY_ISSUE, CATEGORY_PULL_REQUEST}

TARGET_ISSUE_FIELDS == <<"reporter", "assignee", "links">>
TARGET_PULL_FIELDS == <<"author", "closed_by", "links">>
TARGET_ACTIVITY_FIELDS == <<"update", "approval">>

EmptyDict == [py |-> "{}"]
PyNone == [py |-> "None"]
\* a Python list held by a field of an item
PyList(elements) == [list |-> elements]
NoItem == [py |-> "None"]
NoSub == [pc |-> "none"]

\* json.loads of a raw profile text
json_loads(text) == [profile_of |-> text.profile_text_of]

\* the raw user objects an item or a comment may carry: none, an account
\* without display name, or one of Accounts
NoUser == [absent |-> TRUE]
NoNameUser == [url |-> ProfileUrl(0), display_name |-> 0]
RawUsers == {NoUser, NoNameUser} \cup Accounts

\* __init_extra_issue_fields, __init_extra_pull_fields
init_extra_issue_fields(issue) ==
    [id |-> issue.id, updated_on |-> issue.updated_on,
     reporter_data |-> EmptyDict, assignee_data |-> EmptyDict,
     comments_data |-> PyList(<<>>)]
init_extra_pull_fields(pull) ==
    [id |-> pull.id, updated_on |-> pull.updated_on,
     author_data |-> EmptyDict, review_comments_data |-> EmptyDict,
     activity_data |-> PyList(<<>>), closed_by_data |-> PyList(<<>>),
     commits_data |-> PyList(<<>>)]

\* `if str_to_datetime(item['updated_on']) > to_date: return`
over_to_date_never(item, to_date) == FALSE
over_to_date_from(item, to_date) == item.updated_on >= to_date
over_to_date(item, to_date) == item.updated_on > to_date

\* the `return` under that test: where the fetch generator goes on
on_cutoff_break == "groups"
on_cutoff == "done"

\* item[key] = value
Put(item, key, value) ==
    [x \in DOMAIN item \cup {key} |-> IF x = key THEN value ELSE item[x]]

\* __get_user: `if not name or self.exclude_user_data: return None`
get_user_skips_nameonly(name, exclude_user_data) == name = 0
get_user_skips(name, exclude_user_data) == name = 0 \/ exclude_user_data

\* the field of the item a sub-fetch fills, and the generator it drains
DataField(kind) ==
    CASE kind = "comments" -> "comments_data"
      [] kind = "review_comments" -> "review_comments_data"
      [] kind = "activity" -> "activity_data"
      [] kind = "commits" -> "commits_data"
      [] kind = "reporter" -> "reporter_data"
      [] kind = "assignee" -> "assignee_data"
      [] kind = "author" -> "author_data"
      [] kind = "closed_by" -> "closed_by_data"
SubGenerator(kind, number) ==
    CASE kind = "comments" -> issue_comments(number)
      [] kind = "review_comments" -> pull_review_comments(number)
      [] kind = "activity" -> pull_activities(number)
      [] kind = "commits" -> pull_commits(number)

\* `except requests.exceptions.HTTPError: return hashes` of __get_pull_commits
swallowed_never(kind, exc) == FALSE
swallowed_any_error(kind, exc) == kind = "commits"
swallowed(kind, exc) == kind = "commits" /\ exc = "HTTPError"

\* `return hashes` under that except: the hashes appended before the error
caught_empty(hashes) == <<>>
caught(hashes) == hashes

\* one next() of a fetch_items generator: its body from the resumption to the
\* next yield, the end or the exception
PagerNext(p, outcome) ==
    LET a == PagerAdvance([p EXCEPT !.pc = "resumed"], outcome)
    IN  IF a.pc = "raised" THEN a ELSE PagerLoop(a)
PagerNextRequest(p) == PagerRequest([p EXCEPT !.pc = "resumed"])

\* The documents the server may hold at a url of the list: page i has up to
\* MaxPageLen items, and a "next" key only if a page i + 1 exists
ListDocs(url, list_pages, page_len, last_date) ==
    LET i == UrlPage(url)
    IN  {MkPage(i, list_pages + 1, sh) :
            sh \in {x \in PageShapes(1..last_date) :
                       /\ x.has_next => i < list_pages
                       /\ Len(x.dates) <= page_len}}

\* The documents the server may hold at a url of a sub-resource of at most
\* sub_pages pages of at most sub_len entries
SubDocs(url, sub_pages, sub_len) ==
    LET i == UrlPage(url)
    IN  {IF has_next THEN [values |-> [j \in 1..n |-> [n |-> j]], next |-> NextUrl(i + 1)]
                     ELSE [values |-> [j \in 1..n |-> [n |-> j]]] :
            n \in 0..sub_len, has_next \in {b \in BOOLEAN : b => i < sub_pages}}

\* the fields a raw activity may carry
ACTIVITY_FIELDS == {"update", "approval", "comment"}

\* The upstream data of a run of Spec: items and comments carry no user or
\* the first account, activities carry an update and a comment
\* Bitbucket.metadata_id: str(item['updated_on']) + str(item['id']), the
\* decimal digits of the one followed by those of the other
RECURSIVE str(_)
str(n) == IF n < 10 THEN <<n>> ELSE Append(str(n \div 10), n % 10)
metadata_id(item) == str(item.updated_on) \o str(item.id)

\* A stable upstream: what it holds is learnt as the fetch asks for it, a
\* list page, a sub-resource page, a profile, the user of a field or of a
\* comment, the links of an item, and asked again it gives the same
OneRun == [run |-> 1, first |-> <<>>, first_end |-> "", ids |-> <<>>,
           answers |-> [k \in {} |-> 0]]

Told(key, value) == key \in DOMAIN runs.answers => runs.answers[key] = value

RECURSIVE Learn(_, _)
Learn(answers, entries) ==
    IF entries = <<>> THEN answers
    ELSE LET e == entries[1]
         IN  Learn([k \in DOMAIN answers \cup {e[1]} |->
                       IF k = e[1] THEN e[2] ELSE answers[k]], Tail(entries))

\* entries: the <<key, value>> pairs the upstream gives in this step
Stable(entries) ==
    IF ~env.stable THEN UNCHANGED runs
    ELSE /\ \A i \in 1..Len(entries) : Told(entries[i][1], entries[i][2])
         /\ runs' = [runs EXCEPT !.answers = Learn(@, entries)]

PageKey(what, url) ==
    <<what, IF "id" \in DOMAIN cur THEN cur.id ELSE 0, UrlPage(url), 0>>
ProfileEntries(raw, outcome) ==
    IF outcome = Raise("none") THEN <<>>
    ELSE << <<(<<"user", raw.url.profile, 0, 0>>), outcome>> >>

ListEnv ==
    [raw_users |-> {NoUser} \cup {acc \in Accounts : acc.url = ProfileUrl(1)},
     activities |-> {{"update", "comment"}},
     stable |-> FALSE,
     last_date |-> MaxDate,
     list_pages |-> NListPages,
     page_len |-> MaxPageLen,
     sub_pages |-> MaxSubPages,
     sub_len |-> MaxSubLen]

\* s is a prefix of t
IsPrefix(s, t) == Len(s) <= Len(t) /\ \A i \in 1..Len(s) : s[i] = t[i]

IdsOf(values) == [j \in 1..Len(values) |-> values[j].id]

\* the most recent failed request was a commits request answered HTTPError
CommitsCaught == fault # NoFault /\ fault.origin = "commits" /\ fault.error = "HTTPError"

NoCut == [seen |-> FALSE, id |-> 0, ntransport |-> 0, nyielded |-> 0]

\* no fetch is running
IdleFetch ==
    /\ args = [category |-> CATEGORY_ISSUE, from_date |-> NoDate, to_date |-> 0,
               filter_classified |-> FALSE]
    /\ pc = "idle"
    /\ pos = 0
    /\ fld = 0
    /\ cur = NoItem
    /\ todo = <<>>
    /\ subpg = NoSub
    /\ subpos = 0
    /\ hold = <<>>
    /\ raised = ""
    /\ yielded = <<>>
    /\ served = <<>>
    /\ cut = NoCut
    /\ env = ListEnv
    /\ runs = OneRun

----------------------------------------------------------------------------
(* Spec: one fetch(category, from_date, to_date, filter_classified), its   *)
(* generator drained by the caller                                         *)

\* the fetch generator's list of pages: self.client.issues / self.client.pulls
list_generator(category, from_date) ==
    IF category = CATEGORY_ISSUE THEN issues(from_date) ELSE pulls(from_date)

Init ==
    /\ pages = <<>>
    /\ npulls = 0
    /\ got = <<>>
    /\ ntransport = 0
    /\ lastReq = NoReq
    /\ fault = NoFault
    /\ cl = LiveClient
    /\ InitUsers
    /\ args \in [category : CATEGORIES, from_date : {1}, to_date : 1..MaxDate,
                 filter_classified : BOOLEAN]
    /\ pg = list_generator(args.category, args.from_date)
    /\ pc = "groups"
    /\ pos = 0
    /\ fld = 0
    /\ cur = NoItem
    /\ todo = <<>>
    /\ subpg = NoSub
    /\ subpos = 0
    /\ hold = <<>>
    /\ raised = ""
    /\ yielded = <<>>
    /\ served = <<>>
    /\ cut = NoCut
    /\ env = ListEnv
    /\ runs = OneRun

TargetFields == IF args.category = CATEGORY_ISSUE THEN TARGET_ISSUE_FIELDS
                                                  ELSE TARGET_PULL_FIELDS

\* the exception exc leaves the fetch generator
Fails(exc) ==
    /\ pc' = "failed"
    /\ raised' = exc

\* __get_user(url_user, name): None without a call, or the parsed profile that
\* user() gives, or its exception
get_user(cache, raw, exclude_user_data, outcome) ==
    IF get_user_skips(raw.display_name, exclude_user_data)
    THEN Ok(PyNone)
    ELSE LET r == user_return(cache, raw.url, raw.display_name, outcome)
         IN  IF r.ok THEN Ok(json_loads(r.doc)) ELSE r

\* what the transport may give the user() call that __get_user makes for raw
UserOutcomes(raw) ==
    IF get_user_skips(raw.display_name, args.filter_classified)
       \/ user_request(users, raw.url, raw.display_name) = NoReq
    THEN {Raise("none")}
    ELSE {Ok(ProfileAt(raw.url))} \cup Failures

\* the effect of __get_user on the client
GetUserCall(raw, outcome) ==
    IF get_user_skips(raw.display_name, args.filter_classified)
    THEN UNCHANGED <<userVars, netVars>>
    ELSE UserCall(raw.url, raw.display_name, outcome)

\* `for raw_issues in issues_groups`: the list generator fetches a page
ListPull ==
    /\ pc = "groups"
    /\ PagerNextRequest(pg) # NoReq
    /\ \E outcome \in {Ok(d) : d \in ListDocs(PagerNextRequest(pg).url, env.list_pages,
                                              env.page_len, env.last_date)}
                       \cup Failures :
         LET p == PagerNext(pg, outcome)
         IN  /\ pg' = p
             /\ Transport(PagerNextRequest(pg), outcome)
             /\ Stable(<< <<PageKey("list", PagerNextRequest(pg).url), outcome>> >>)
             /\ CASE p.pc = "raised" ->
                       Fails(p.error) /\ UNCHANGED <<pos, served>>
                  [] p.pc = "suspended" ->
                       /\ pc' = "values"
                       /\ pos' = 1
                       /\ served' = served \o IdsOf(ValuesOf(p.data))
                       /\ UNCHANGED raised
                  [] OTHER ->
                       pc' = "done" /\ UNCHANGED <<pos, served, raised>>
    /\ UNCHANGED <<pages, npulls, got, userVars, args, fld, cur, todo, subpg, subpos,
                   hold, yielded, cut, env>>

\* `for raw_issues in issues_groups`: the list generator ends
ListEnd ==
    /\ pc = "groups"
    /\ PagerNextRequest(pg) = NoReq
    /\ pg' = PagerNext(pg, Raise("none"))
    /\ pc' = IF pg'.pc = "suspended" THEN "values" ELSE "done"
    /\ UNCHANGED <<pages, npulls, got, netVars, userVars, args, runs, pos, fld, cur, todo,
                   subpg, subpos, hold, raised, yielded, served, cut, env>>

\* `issues['values']` of a page without "values"
ValuesMissing ==
    /\ pc = "values"
    /\ "values" \notin DOMAIN pg.data
    /\ Fails("KeyError")
    /\ UNCHANGED <<pagerVars, netVars, userVars, args, runs, pos, fld, cur, todo, subpg,
                   subpos, hold, yielded, served, cut, env>>

\* `for issue in issues['values']` is through the page
PageDone ==
    /\ pc = "values"
    /\ "values" \in DOMAIN pg.data
    /\ pos > Len(pg.data.values)
    /\ pc' = "groups"
    /\ UNCHANGED <<pagerVars, netVars, userVars, args, runs, pos, fld, cur, todo, subpg,
                   subpos, hold, raised, yielded, served, cut, env>>

\* the next item of the page: `if ... > to_date: return`, else the extra
\* fields are initialised and, for a pull request, the activity fetch begins
NextItem ==
    /\ pc = "values"
    /\ "values" \in DOMAIN pg.data
    /\ pos <= Len(pg.data.values)
    /\ LET item == pg.data.values[pos]
       IN  /\ cut' = IF ~cut.seen /\ item.updated_on > args.to_date
                     THEN [seen |-> TRUE, id |-> item.id, ntransport |-> ntransport,
                           nyielded |-> Len(yielded)]
                     ELSE cut
           /\ IF over_to_date(item, args.to_date)
              THEN /\ pc' = on_cutoff
                   /\ UNCHANGED <<fld, cur, todo, subpg, subpos, hold>>
              ELSE IF args.category = CATEGORY_ISSUE
              THEN /\ cur' = init_extra_issue_fields(item)
                   /\ pc' = "fields"
                   /\ fld' = 1
                   /\ UNCHANGED <<todo, subpg, subpos, hold>>
              ELSE /\ cur' = init_extra_pull_fields(item)
                   /\ pc' = "sub"
                   /\ todo' = <<"activity">>
                   /\ subpg' = pull_activities(item.id)
                   /\ subpos' = 0
                   /\ hold' = <<>>
                   /\ UNCHANGED fld
    /\ UNCHANGED <<pagerVars, netVars, userVars, args, runs, pos, raised, yielded, served, env>>

\* `for field in TARGET_..._FIELDS`, a user field: skipped when the item has
\* no such user, else filled by __get_user
FieldUser ==
    /\ pc = "fields"
    /\ fld \in 1..2
    /\ \E raw \in env.raw_users :
         IF raw = NoUser
         THEN /\ cur' = Put(cur, TargetFields[fld], raw)
              /\ fld' = fld + 1
              /\ Stable(<< <<(<<"field", cur.id, fld, 0>>), raw>> >>)
              /\ UNCHANGED <<netVars, userVars, pc, raised>>
         ELSE \E outcome \in UserOutcomes(raw) :
                LET r == get_user(users, raw, args.filter_classified, outcome)
                IN  /\ GetUserCall(raw, outcome)
                    /\ Stable(<< <<(<<"field", cur.id, fld, 0>>), raw>> >>
                              \o ProfileEntries(raw, outcome))
                    /\ IF r.ok
                       THEN /\ cur' = Put(Put(cur, TargetFields[fld], raw),
                                          DataField(TargetFields[fld]), r.doc)
                            /\ fld' = fld + 1
                            /\ UNCHANGED <<pc, raised>>
                       ELSE /\ Fails(r.error)
                            /\ cur' = Put(cur, TargetFields[fld], raw)
                            /\ UNCHANGED fld
    /\ UNCHANGED <<pagerVars, args, pos, todo, subpg, subpos, hold, yielded, served, cut, env>>

\* the sub-fetches `links` asks for: comments for an issue; review comments,
\* then commits, for a pull request
LinkFetches(category, links) ==
    IF category = CATEGORY_ISSUE
    THEN IF "comments" \in links THEN <<"comments">> ELSE <<>>
    ELSE (IF "comments" \in links THEN <<"review_comments">> ELSE <<>>)
         \o (IF "commits" \in links THEN <<"commits">> ELSE <<>>)

\* the sub-fetches kinds begin for cur, or the item is ready
Begin(kinds, after) ==
    /\ todo' = kinds
    /\ IF kinds = <<>>
       THEN /\ pc' = after
            /\ subpg' = NoSub
       ELSE /\ pc' = "sub"
            /\ subpg' = SubGenerator(kinds[1], cur.id)
    /\ subpos' = 0
    /\ hold' = <<>>

\* `for field in TARGET_..._FIELDS`, the field links
FieldLinks ==
    /\ pc = "fields"
    /\ fld = 3
    /\ \E links \in SUBSET {"comments", "commits"} :
         /\ Begin(LinkFetches(args.category, links), "yield")
         /\ Stable(<< <<(<<"links", cur.id, 0, 0>>), links>> >>)
    /\ UNCHANGED <<pagerVars, netVars, userVars, args, pos, fld, cur, raised,
                   yielded, served, cut, env>>

\* the running sub-fetch returns list: it fills its field of cur, and the
\* next sub-fetch begins, or the field loop, or the yield
Return(list) ==
    /\ cur' = [cur EXCEPT ![DataField(todo[1])] = PyList(list)]
    /\ IF todo[1] = "activity"
       THEN /\ pc' = "fields"
            /\ fld' = 1
            /\ todo' = <<>>
            /\ subpg' = NoSub
            /\ subpos' = 0
            /\ hold' = <<>>
       ELSE /\ todo' = Tail(todo)
            /\ IF Tail(todo) = <<>>
               THEN /\ pc' = "yield"
                    /\ subpg' = NoSub
               ELSE /\ pc' = "sub"
                    /\ subpg' = SubGenerator(todo[2], cur.id)
            /\ subpos' = 0
            /\ hold' = <<>>
            /\ UNCHANGED fld

SubReady ==
    /\ pc = "sub"
    /\ subpg.pc = "suspended" => subpos > Len(ValuesOf(subpg.data))

\* the generator of the running sub-fetch fetches a page; an HTTPError of the
\* commits fetch ends it with the hashes collected so far
SubPull ==
    /\ SubReady
    /\ PagerNextRequest(subpg) # NoReq
    /\ \E outcome \in {Ok(d) : d \in SubDocs(PagerNextRequest(subpg).url, env.sub_pages,
                                             env.sub_len)} \cup Failures :
         LET p == PagerNext(subpg, outcome)
         IN  /\ Transport(PagerNextRequest(subpg), outcome)
             /\ Stable(<< <<PageKey(todo[1], PagerNextRequest(subpg).url), outcome>> >>)
             /\ CASE p.pc = "raised" /\ swallowed(todo[1], p.error) ->
                       Return(caught(hold)) /\ UNCHANGED raised
                  [] p.pc = "raised" /\ ~swallowed(todo[1], p.error) ->
                       Fails(p.error) /\ subpg' = p
                       /\ UNCHANGED <<cur, fld, todo, subpos, hold>>
                  [] p.pc = "suspended" ->
                       /\ subpg' = p
                       /\ subpos' = 1
                       /\ UNCHANGED <<pc, cur, fld, todo, hold, raised>>
                  [] OTHER ->
                       Return(hold) /\ UNCHANGED raised
    /\ UNCHANGED <<pagerVars, userVars, args, pos, yielded, served, cut, env>>

\* the generator of the running sub-fetch ends
SubEnd ==
    /\ SubReady
    /\ PagerNextRequest(subpg) = NoReq
    /\ Return(hold)
    /\ UNCHANGED <<pagerVars, netVars, userVars, args, runs, pos, raised, yielded, served,
                   cut, env>>

SubEntry(kinds) ==
    /\ pc = "sub"
    /\ todo[1] \in kinds
    /\ subpg.pc = "suspended"
    /\ subpos <= Len(ValuesOf(subpg.data))

\* __get_issue_comments, __get_pull_review_comments: the next comment, its
\* user_data filled by __get_user when it has a user
CommentEntry ==
    /\ SubEntry({"comments", "review_comments"})
    /\ \E raw \in env.raw_users :
         LET comment == subpg.data.values[subpos]
         IN  IF raw = NoUser
             THEN /\ hold' = Append(hold, Put(comment, "user", raw))
                  /\ subpos' = subpos + 1
                  /\ Stable(<< <<(<<todo[1], cur.id, subpg.page, subpos>>), raw>> >>)
                  /\ UNCHANGED <<netVars, userVars, pc, raised>>
             ELSE \E outcome \in UserOutcomes(raw) :
                    LET r == get_user(users, raw, args.filter_classified, outcome)
                    IN  /\ GetUserCall(raw, outcome)
                        /\ Stable(<< <<(<<todo[1], cur.id, subpg.page, subpos>>), raw>> >>
                                  \o ProfileEntries(raw, outcome))
                        /\ IF r.ok
                           THEN /\ hold' = Append(hold, [n |-> comment.n, user |-> raw,
                                                        user_data |-> r.doc])
                                /\ subpos' = subpos + 1
                                /\ UNCHANGED <<pc, raised>>
                           ELSE /\ Fails(r.error)
                                /\ UNCHANGED <<hold, subpos>>
    /\ UNCHANGED <<pagerVars, args, pos, fld, cur, todo, subpg, yielded, served, cut, env>>

\* `activity_new`: the activity cut down to TARGET_ACTIVITY_FIELDS
activity_new_all(activity) == activity
activity_new(activity) ==
    [f \in {TARGET_ACTIVITY_FIELDS[i] : i \in 1..Len(TARGET_ACTIVITY_FIELDS)}
           \cap DOMAIN activity |-> activity[f]]

\* __get_pull_activity: the next activity
ActivityEntry ==
    /\ SubEntry({"activity"})
    /\ \E keys \in env.activities :
         LET activity == [f \in keys |-> subpg.data.values[subpos].n]
         IN  hold' = Append(hold, activity_new(activity))
    /\ subpos' = subpos + 1
    /\ UNCHANGED <<pagerVars, netVars, userVars, args, runs, pc, pos, fld, cur, todo, subpg,
                   raised, yielded, served, cut, env>>

\* __get_pull_commits: the hash of the next commit
CommitEntry ==
    /\ SubEntry({"commits"})
    /\ hold' = Append(hold, [hash |-> <<subpg.page, subpg.data.values[subpos].n>>])
    /\ subpos' = subpos + 1
    /\ UNCHANGED <<pagerVars, netVars, userVars, args, runs, pc, pos, fld, cur, todo, subpg,
                   raised, yielded, served, cut, env>>

\* `yield issue` / `yield pull`, and the caller asks for the next item
Yield ==
    /\ pc = "yield"
    /\ yielded' = Append(yielded, cur.id)
    /\ runs' = IF env.stable THEN [runs EXCEPT !.ids = Append(@, metadata_id(cur))]
               ELSE runs
    /\ pos' = pos + 1
    /\ pc' = "values"
    /\ cur' = NoItem
    /\ UNCHANGED <<pagerVars, netVars, userVars, args, fld, todo, subpg, subpos, hold,
                   raised, served, cut, env>>

Next ==
    \/ ListPull \/ ListEnd \/ ValuesMissing \/ PageDone \/ NextItem
    \/ FieldUser \/ FieldLinks \/ SubPull \/ SubEnd
    \/ CommentEntry \/ ActivityEntry \/ CommitEntry \/ Yield

Spec == Init /\ [][Next]_vars

----------------------------------------------------------------------------
(* Properties of the fetch generators, under Spec                          *)

\* C1: once an item with updated_on > to_date has been met at position k of a
\* list page, nothing more is yielded: not that item, no item after it in the
\* page, no item of a later page, whatever their dates
Thm_C1_NothingYieldedAfterCutoff ==
    cut.seen =>
        /\ Len(yielded) = cut.nyielded
        /\ \A i \in 1..Len(yielded) : yielded[i] < cut.id
        /\ pc = "done"

\* the fetch has ended at an item over to_date that is followed, in a page
\* that has a next link, by an item within to_date
Wit_C1_CutoffBeforeItemInRange ==
    /\ cut.seen
    /\ pc = "done"
    /\ HasNext(pg.data)
    /\ pg.data.values[pos].id = cut.id
    /\ \E j \in (pos + 1)..Len(pg.data.values) :
          pg.data.values[j].updated_on <= args.to_date

\* C2: once an item with updated_on > to_date has been met, the fetch makes
\* no transport request: no list page, no sub-fetch, no profile
Thm_C2_NoRequestAfterCutoff ==
    cut.seen =>
        /\ ntransport = cut.ntransport
        /\ pg.pc = "suspended"
        /\ subpg = NoSub

\* a pull request fetch has ended at an item over to_date, after an item it
\* enriched and yielded, in a page that has a next link
Wit_C2_CutoffWithNextLink ==
    /\ cut.seen
    /\ pc = "done"
    /\ args.category = CATEGORY_PULL_REQUEST
    /\ HasNext(pg.data)
    /\ cut.nyielded >= 1
    /\ cut.ntransport >= 3

\* C3: the items yielded are, in order, the items of the pages fetched; when
\* no item is over to_date and no request fails, the fetch ends having
\* yielded every item of every page once, in page order and array order
Thm_C3_YieldsEveryItemOnceInOrder ==
    /\ IsPrefix(yielded, served)
    /\ \A i, j \in 1..Len(served) : i < j => served[i] < served[j]
    /\ (pc = "done" /\ ~cut.seen) =>
          /\ yielded = served
          /\ ~HasNext(pg.data)

\* a fetch of two full pages has ended having yielded the items on both sides
\* of the page boundary
Wit_C3_TwoFullPagesYielded ==
    /\ pc = "done"
    /\ ~cut.seen
    /\ yielded = <<ItemId(1, 1), ItemId(1, 2), ItemId(2, 1), ItemId(2, 2)>>

\* C14: a request that raises anything but an HTTPError of the commits
\* sub-fetch ends the fetch with that exception: the item being enriched is
\* not yielded, and what has been yielded is exactly the items before it (all
\* items of the pages read, when it was a list request that raised)
Thm_C14_OtherErrorsAbort ==
    /\ (fault # NoFault /\ ~CommitsCaught) =>
          /\ pc = "failed"
          /\ raised = fault.error
          /\ \A i \in 1..Len(yielded) : yielded[i] # fault.item
          /\ IF fault.origin = "list"
             THEN yielded = served
             ELSE /\ Len(yielded) < Len(served)
                  /\ served[Len(yielded) + 1] = fault.item
    /\ pc = "failed" => IsPrefix(yielded, served)

\* the commits sub-fetch of the second pull request of a page has raised a
\* RetryError, which has ended the fetch after the first was yielded
Wit_C14_RetryErrorInCommitsAborts ==
    /\ pc = "failed"
    /\ fault # NoFault
    /\ fault.origin = "commits"
    /\ fault.error = "RetryError"
    /\ yielded = <<ItemId(1, 1)>>
    /\ fault.item = ItemId(1, 2)

----------------------------------------------------------------------------
(* SpecEnrich: one fetch over a list of at most one item, whose users are  *)
(* any of RawUsers, on a client whose class already holds a users cache    *)

EnrichEnv ==
    [raw_users |-> RawUsers,
     activities |-> {{"update", "comment"}},
     stable |-> FALSE,
     last_date |-> MaxDate,
     list_pages |-> 1,
     page_len |-> 1,
     sub_pages |-> MaxSubPages,
     sub_len |-> MaxSubLen]

\* the caches earlier fetches may have left in BitbucketClient._users
PriorCaches ==
    UNION {[ns -> {ProfileAt(acc.url) : acc \in Accounts}] : ns \in SUBSET Names}

InitEnrich ==
    /\ pages = <<>>
    /\ npulls = 0
    /\ got = <<>>
    /\ ntransport = 0
    /\ lastReq = NoReq
    /\ fault = NoFault
    /\ cl = LiveClient
    /\ users \in {c \in PriorCaches :
                     \A n \in DOMAIN c : \E acc \in Accounts :
                        acc.display_name = n /\ c[n] = ProfileAt(acc.url)}
    /\ nfetch = [n \in Names |-> IF n \in DOMAIN users THEN 1 ELSE 0]
    /\ nok = nfetch
    /\ requested = {[profile |-> users[n].profile_text_of] : n \in DOMAIN users}
    /\ lastCall = NoCall
    /\ args \in [category : CATEGORIES, from_date : {1}, to_date : {MaxDate},
                 filter_classified : BOOLEAN]
    /\ pg = list_generator(args.category, args.from_date)
    /\ pc = "groups"
    /\ pos = 0
    /\ fld = 0
    /\ cur = NoItem
    /\ todo = <<>>
    /\ subpg = NoSub
    /\ subpos = 0
    /\ hold = <<>>
    /\ raised = ""
    /\ yielded = <<>>
    /\ served = <<>>
    /\ cut = NoCut
    /\ env = EnrichEnv
    /\ runs = OneRun

SpecEnrich == InitEnrich /\ [][Next]_vars

----------------------------------------------------------------------------
(* Properties of the enrichment, under SpecEnrich                          *)

USER_FIELDS == {"reporter", "assignee", "author", "closed_by"}

\* the value is {} or [] or None, never a profile
IsMarker(value) == value \in {EmptyDict, PyNone, PyList(<<>>)}

\* the item or comment has no user at key, or one __get_user does not resolve
Unresolved(item, key) ==
    \/ item[key] = NoUser
    \/ item[key].display_name = 0
    \/ args.filter_classified

\* the comments of the item collected so far, if it has any
CommentsOf(item) ==
    (IF "comments_data" \in DOMAIN item THEN item.comments_data.list ELSE <<>>)
    \o (IF "review_comments_data" \in DOMAIN item
           /\ item.review_comments_data # EmptyDict
        THEN item.review_comments_data.list ELSE <<>>)
    \o (IF pc = "sub" /\ todo[1] \in {"comments", "review_comments"} THEN hold ELSE <<>>)

\* C11: with filter_classified set no user() call is made, so no profile is
\* requested and the cache stays as it was; a user without display name is
\* never requested nor cached; and the *_data of every user field and the
\* user_data of every comment whose user is not resolved is {} or [] or None
\* (a comment without user has no user_data)
Thm_C11_SkippedUsersAreMarkers ==
    /\ [][args.filter_classified => UNCHANGED <<users, requested, nfetch, lastCall>>]_vars
    /\ [](/\ (args.filter_classified /\ lastReq # NoReq) =>
               "profile" \notin DOMAIN lastReq.url
          /\ ProfileUrl(0) \notin requested
          /\ 0 \notin DOMAIN users
          /\ \A f \in USER_FIELDS \cap DOMAIN cur :
                Unresolved(cur, f) => IsMarker(cur[DataField(f)])
          /\ \A i \in 1..Len(CommentsOf(cur)) :
                LET c == CommentsOf(cur)[i]
                IN  Unresolved(c, "user") =>
                      ("user_data" \notin DOMAIN c \/ c.user_data = PyNone))

\* an issue is about to be yielded under filter_classified whose reporter and
\* whose comment's user are accounts with display names
Wit_C11_ExcludedAccountsYielded ==
    /\ pc = "yield"
    /\ args.filter_classified
    /\ args.category = CATEGORY_ISSUE
    /\ cur.reporter \in Accounts
    /\ Len(cur.comments_data.list) = 1
    /\ cur.comments_data.list[1].user \in Accounts

----------------------------------------------------------------------------
(* SpecFaults: one fetch over a list of one page whose sub-resources have  *)
(* up to MaxFaultPages pages                                               *)

FaultsEnv ==
    [raw_users |-> {NoUser} \cup {acc \in Accounts : acc.url = ProfileUrl(1)},
     activities |-> {{"update", "comment"}},
     stable |-> FALSE,
     last_date |-> MaxDate,
     list_pages |-> 1,
     page_len |-> MaxPageLen,
     sub_pages |-> MaxFaultPages,
     sub_len |-> 1]

InitFaults ==
    /\ pages = <<>>
    /\ npulls = 0
    /\ got = <<>>
    /\ ntransport = 0
    /\ lastReq = NoReq
    /\ fault = NoFault
    /\ cl = LiveClient
    /\ InitUsers
    /\ args \in [category : CATEGORIES, from_date : {1}, to_date : {MaxDate},
                 filter_classified : {TRUE}]
    /\ pg = list_generator(args.category, args.from_date)
    /\ pc = "groups"
    /\ pos = 0
    /\ fld = 0
    /\ cur = NoItem
    /\ todo = <<>>
    /\ subpg = NoSub
    /\ subpos = 0
    /\ hold = <<>>
    /\ raised = ""
    /\ yielded = <<>>
    /\ served = <<>>
    /\ cut = NoCut
    /\ env = FaultsEnv
    /\ runs = OneRun

SpecFaults == InitFaults /\ [][Next]_vars

----------------------------------------------------------------------------
(* Properties of the commits sub-fetch, under SpecFaults                   *)

\* the pull request whose commits request failed is about to be yielded
CaughtItemReady == CommitsCaught /\ pc = "yield" /\ cur.id = fault.item

CommitsRun == pc = "sub" /\ todo[1] = "commits"

\* the hashes of the first n commits of page number page
HashesOf(page, n) == [k \in 1..n |-> [hash |-> <<page, k>>]]

\* a commits request is answered with an HTTPError in this step
CatchStep == CommitsRun /\ fault' # fault /\ fault'.error = "HTTPError"

\* C13: while the commits sub-fetch runs, the hashes collected are those of
\* the pages read so far, in order; when the request for page j is answered
\* with an HTTPError, commits_data is exactly these hashes, all of pages
\* before j, and no exception leaves the fetch
Thm_C13_CaughtCommitsArePagesBefore ==
    /\ [](CommitsRun =>
            /\ \A i \in 1..Len(hold) : hold[i].hash[1] <= subpg.page
            /\ \A i, j \in 1..Len(hold) :
                  i < j => \/ hold[i].hash[1] < hold[j].hash[1]
                           \/ /\ hold[i].hash[1] = hold[j].hash[1]
                              /\ hold[i].hash[2] < hold[j].hash[2]
            /\ subpg.pc = "suspended" =>
                  SelectSeq(hold, LAMBDA h : h.hash[1] = subpg.page)
                     = HashesOf(subpg.page, subpos - 1))
    /\ [][(CommitsRun /\ CommitsRun' /\ cur'.id = cur.id) => IsPrefix(hold, hold')]_vars
    /\ [][CatchStep =>
            /\ cur'.commits_data = PyList(hold)
            /\ \A i \in 1..Len(hold) : hold[i].hash[1] < fault'.page
            /\ subpg.page = fault'.page - 1
            /\ subpg.page > 0 => subpos = Len(ValuesOf(subpg.data)) + 1
            /\ pc' = "yield"
            /\ raised' = ""]_vars

\* the second commits page of a pull request failed after a first page of one
\* commit, and the pull request is about to be yielded with that commit
Wit_C13_SecondPageFailed ==
    /\ CaughtItemReady
    /\ fault.page = 2
    /\ cur.commits_data = PyList(HashesOf(1, 1))

----------------------------------------------------------------------------
(* SpecUsers: any sequence of user() calls on one client                   *)

InitUsersSpec ==
    /\ pages = <<>>
    /\ pg = issues(NoDate)
    /\ ntransport = 0
    /\ lastReq = NoReq
    /\ fault = NoFault
    /\ cl = LiveClient
    /\ npulls = 0
    /\ got = <<>>
    /\ InitUsers
    /\ IdleFetch

\* user() answers from the cache
ResolveHit ==
    /\ \E acc \in Accounts :
          /\ user_request(users, acc.url, acc.display_name) = NoReq
          /\ UserCall(acc.url, acc.display_name, Raise("none"))
    /\ UNCHANGED <<pagerVars, fetchVars>>

\* user() fetches the profile, or its transport call raises
ResolveMiss ==
    /\ \E acc \in Accounts :
          /\ user_request(users, acc.url, acc.display_name) # NoReq
          /\ nfetch[acc.display_name] < MaxUserFetches
          /\ \E outcome \in {Ok(ProfileAt(acc.url))} \cup Failures :
                UserCall(acc.url, acc.display_name, outcome)
    /\ UNCHANGED <<pagerVars, fetchVars>>

NextUsers == ResolveHit \/ ResolveMiss

SpecUsers == InitUsersSpec /\ [][NextUsers]_vars

----------------------------------------------------------------------------
(* Properties of the users cache, under SpecUsers                         *)

\* a step that is a call of user()
IsUserStep == lastCall' # lastCall \/ nfetch' # nfetch

\* C8 as stated: user() makes at most one transport call per display name.
CE_C8_OneFetchPerName ==
    \A n \in Names : nfetch[n] <= 1

\* C8 (as amended): per display name at most one transport call of user()
\* returns a profile, and the name is cached exactly when one has; a call
\* that raised stored nothing, so the name may be fetched again.
Thm_C8_OneAnsweredFetchPerName ==
    \A n \in Names :
        /\ nok[n] <= 1
        /\ n \in DOMAIN users <=> nok[n] = 1

\* a display name was resolved again and answered from the cache, after the
\* single fetch made for it
Wit_C8_SecondResolveCached ==
    /\ lastCall.hit
    /\ nfetch[lastCall.name] = 1
    /\ nok[lastCall.name] = 1

\* C9: user(url, name) with name cached gives the stored text, makes no
\* transport call and leaves the cache as it was; with name not cached it
\* makes exactly one transport call, to url, and when that call returns a
\* response its raw text is stored under name and is what the caller gets.
Thm_C9_ResolveFrame ==
    [][IsUserStep =>
         LET c == lastCall'
         IN  IF c.name \in DOMAIN users
             THEN /\ c.hit
                  /\ c.result = Ok(users[c.name])
                  /\ UNCHANGED <<users, ntransport, lastReq, fault, cl, requested>>
             ELSE /\ ~c.hit
                  /\ ntransport' = ntransport + 1
                  /\ lastReq'.url = c.url
                  /\ IF c.result.ok
                     THEN /\ c.result.doc = ProfileAt(c.url)
                          /\ DOMAIN users' = DOMAIN users \cup {c.name}
                          /\ users'[c.name] = c.result.doc
                          /\ \A n \in DOMAIN users : users'[n] = users[n]
                     ELSE users' = users
      ]_vars

\* C23: a profile fetch that raises leaves the cache as it was, so the name
\* has no entry and the next resolve of it sends a request again; an entry,
\* once stored, is never removed and never given another value; and no name
\* has an entry without a fetch of it that succeeded
Thm_C23_CacheKeepsEntriesAndNoFailures ==
    /\ [][\A n \in DOMAIN users : n \in DOMAIN users' /\ users'[n] = users[n]]_vars
    /\ [][(IsUserStep /\ ~lastCall'.result.ok) => users' = users]_vars
    /\ [](/\ \A n \in DOMAIN users : nok[n] >= 1
          /\ (lastCall # NoCall /\ ~lastCall.result.ok) =>
                /\ lastCall.name \notin DOMAIN users
                /\ user_request(users, lastCall.url, lastCall.name) # NoReq)

\* a name whose first fetch raised was fetched again and is now cached
Wit_C23_FetchedAgainAfterFailure ==
    \E n \in Names :
        /\ nfetch[n] = 2
        /\ nok[n] = 1
        /\ n \in DOMAIN users
        /\ fault # NoFault
        /\ fault.origin = "user"

\* a miss was answered: the fetched text is returned and is the cache entry
Wit_C9_MissStored ==
    /\ ~lastCall.hit
    /\ lastCall.result.ok
    /\ lastCall.name \in DOMAIN users
    /\ users[lastCall.name] = lastCall.result.doc

\* C10: when the profile of account a is cached under the display name that
\* account b shares, user() called for b gives a's profile and b's profile
\* url is not requested.
Thm_C10_SharedNameCollides ==
    [][\A a, b \in Accounts :
          ( /\ a # b
            /\ a.display_name = b.display_name
            /\ a.display_name \in DOMAIN users
            /\ users[a.display_name] = ProfileAt(a.url)
            /\ IsUserStep
            /\ lastCall'.url = b.url )
          => /\ lastCall'.result = Ok(ProfileAt(a.url))
             /\ requested' = requested
             /\ ntransport' = ntransport
             /\ users' = users
      ]_vars

\* the second of two accounts sharing a display name got the profile of the
\* first, and its own profile url was never requested
Wit_C10_SecondGotFirstProfile ==
    /\ lastCall.hit
    /\ lastCall.result.doc # ProfileAt(lastCall.url)
    /\ lastCall.url \notin requested

----------------------------------------------------------------------------
(* SpecPager: one page generator and a caller that pulls pages or stops    *)

PagerSources ==
    {issues(d) : d \in {NoDate, 1}} \cup {pulls(1), pull_commits(1)}

InitPager ==
    /\ pages \in Worlds({1})
    /\ pg \in PagerSources
    /\ ntransport = 0
    /\ lastReq = NoReq
    /\ fault = NoFault
    /\ cl = LiveClient
    /\ npulls = 0
    /\ got = <<>>
    /\ InitUsers
    /\ IdleFetch

\* the caller asks for the next page
Pull ==
    /\ pg.pc \in {"created", "suspended"}
    /\ npulls < MaxPulls
    /\ pg' = [pg EXCEPT !.pc = "resumed"]
    /\ npulls' = npulls + 1
    /\ UNCHANGED <<pages, ntransport, lastReq, fault, cl, got>>
    /\ UNCHANGED <<userVars, fetchVars>>

\* the caller drops the generator
Stop ==
    /\ pg.pc \in {"created", "suspended"}
    /\ pg' = [pg EXCEPT !.pc = "closed"]
    /\ UNCHANGED <<pages, ntransport, lastReq, fault, cl, npulls, got>>
    /\ UNCHANGED <<userVars, fetchVars>>

\* the body runs up to `while items`, its transport call answered
PagerFetch ==
    /\ PagerRuns(pg)
    /\ PagerRequest(pg) # NoReq
    /\ \E outcome \in {Ok(Serve(pages, PagerRequest(pg).url))} \cup Failures :
          /\ pg' = PagerAdvance(pg, outcome)
          /\ Transport(PagerRequest(pg), outcome)
    /\ UNCHANGED <<pages, npulls, got>>
    /\ UNCHANGED <<userVars, fetchVars>>

\* the body runs up to `while items` without a transport call
PagerNoFetch ==
    /\ PagerRuns(pg)
    /\ PagerRequest(pg) = NoReq
    /\ pg' = PagerAdvance(pg, Raise("none"))
    /\ UNCHANGED <<pages, ntransport, lastReq, fault, cl, npulls, got>>
    /\ UNCHANGED <<userVars, fetchVars>>

\* `while items: yield items`: the page goes to the caller, or the generator ends
PagerYield ==
    /\ pg.pc = "loop"
    /\ pg' = PagerLoop(pg)
    /\ got' = IF pg'.pc = "suspended" THEN Append(got, pg.items[1]) ELSE got
    /\ UNCHANGED <<pages, ntransport, lastReq, fault, cl, npulls>>
    /\ UNCHANGED <<userVars, fetchVars>>

NextPager == Pull \/ Stop \/ PagerFetch \/ PagerNoFetch \/ PagerYield

SpecPager == InitPager /\ [][NextPager]_vars

----------------------------------------------------------------------------
(* Properties of the page generator, under SpecPager                      *)

\* C4 (as amended): the generator ends only behind a fetched page that has no
\* "next" key, and its body skips the request only behind such a page, so a
\* page with a "next" key is handed over and followed whatever its values.
Thm_C4_StopsOnlyWithoutNext ==
    /\ pg.pc = "finished" => ~HasNext(pg.data)
    /\ (pg.pc = "loop" /\ ~Truthy(pg.items)) => ~HasNext(pg.data)

\* a page with empty or absent values and a "next" key was handed over and
\* followed to the end of the resource
Wit_C4_EmptyPageFollowed ==
    /\ pg.pc = "finished"
    /\ Len(got) >= 2
    /\ ValuesOf(got[1]) = <<>>

\* C4 as stated: no page is requested behind a page whose values is empty or
\* absent.
CE_C4_StopsOnEmptyValues ==
    \A i \in 1..Len(got) : ValuesOf(got[i]) = <<>> => ntransport <= i

\* C5 as stated: the first request goes to the assembled url with the
\* caller's payload; every later request goes to the previous page's next url
\* and carries no payload.
CE_C5_NoPayloadAfterFirstPage ==
    /\ ntransport = 1 => lastReq = Req(FirstUrl(pg.path), pg.payload)
    /\ ntransport >= 2 =>
          /\ lastReq.url = got[ntransport - 1]["next"]
          /\ lastReq.payload = EmptyPayload

\* C6: no read-ahead. At most one fetched page has not been handed to the
\* caller, and the generator never makes more transport calls than the caller
\* has made next() calls, so page i+1 is requested only after page i was handed
\* over and the caller asked again, and a caller that stops causes no request.
Thm_C6_NoReadAhead ==
    /\ pg.page <= Len(got) + 1
    /\ ntransport <= Len(got) + 1
    /\ ntransport <= npulls
    /\ pg.pc = "closed" => ntransport = Len(got)

\* page 2 has been fetched after page 1 was handed over and asked for
Wit_C6_SecondPageFetched ==
    /\ pg.pc = "loop"
    /\ ntransport = 2
    /\ Len(got) = 1
    /\ npulls = 2

\* N pages with non-empty values, all but the last with a "next" key
Chain(ps) ==
    \A i \in 1..Len(ps) :
        /\ ValuesOf(ps[i]) # <<>>
        /\ HasNext(ps[i]) <=> i < Len(ps)


\* C7: over N non-empty pages of which only the last lacks "next", the
\* generator hands over a prefix of the pages in order with never more than N
\* transport calls, and when it has ended it has handed over exactly the N
\* pages with exactly N transport calls.
Thm_C7_ExactlyNPagesNCalls ==
    Chain(pages) =>
        /\ IsPrefix(got, pages)
        /\ ntransport <= Len(pages)
        /\ pg.pc = "finished" => (got = pages /\ ntransport = Len(pages))

\* a resource of three pages has been drained
Wit_C7_ThreePagesDrained ==
    /\ Chain(pages)
    /\ Len(pages) = 3
    /\ pg.pc = "finished"

\* the next links lead from the first page to a page without one
Ends(ps) == \E i \in 1..Len(ps) : ~HasNext(ps[i])
LastPage(ps) == CHOOSE i \in 1..Len(ps) :
                    ~HasNext(ps[i]) /\ \A j \in 1..(i - 1) : HasNext(ps[j])

\* C20 as stated: whatever the upstream serves, a caller that keeps pulling
\* reaches the end; the upstream being a fixed set of pages and the body
\* deciding on the current page alone, it reaches the end within as many
\* pulls as there are pages or never, so the generator is never suspended
\* after more pulls than that
CE_C20_EndsWithinThePagesThereAre ==
    pg.pc = "suspended" => npulls <= Len(pages)

\* C20, amended: when the next links lead to a page without one, the caller
\* who keeps pulling is handed the pages up to that one, each once, no
\* request goes beyond it, and the pull after it finds the end; when every
\* page carries a next link the generator never finishes by itself
Thm_C20_EndsWhereNextLinksEnd ==
    IF Ends(pages)
    THEN /\ pg.pc = "suspended" => npulls <= LastPage(pages)
         /\ ntransport <= LastPage(pages)
         /\ IsPrefix(got, SubSeq(pages, 1, LastPage(pages)))
         /\ pg.pc = "finished" => ntransport = LastPage(pages)
    ELSE pg.pc # "finished"

\* three pages, the second without a next link: the third pull found the end
Wit_C20_EndFoundAtSecondOfThree ==
    /\ Len(pages) = 3
    /\ Ends(pages)
    /\ LastPage(pages) = 2
    /\ ValuesOf(pages[1]) = <<>>
    /\ npulls = 3
    /\ pg.pc = "finished"

----------------------------------------------------------------------------
(* SpecActivity: pull requests whose activities carry any of the fields     *)

ActivityEnv ==
    [raw_users |-> {NoUser},
     activities |-> SUBSET ACTIVITY_FIELDS,
     stable |-> FALSE,
     last_date |-> MaxDate,
     list_pages |-> 1,
     page_len |-> 1,
     sub_pages |-> MaxFaultPages,
     sub_len |-> 1]

InitActivity ==
    /\ pages = <<>>
    /\ npulls = 0
    /\ got = <<>>
    /\ ntransport = 0
    /\ lastReq = NoReq
    /\ fault = NoFault
    /\ cl = LiveClient
    /\ InitUsers
    /\ args \in [category : CATEGORIES, from_date : {1}, to_date : {MaxDate},
                 filter_classified : {TRUE}]
    /\ pg = list_generator(args.category, args.from_date)
    /\ pc = "groups"
    /\ pos = 0
    /\ fld = 0
    /\ cur = NoItem
    /\ todo = <<>>
    /\ subpg = NoSub
    /\ subpos = 0
    /\ hold = <<>>
    /\ raised = ""
    /\ yielded = <<>>
    /\ served = <<>>
    /\ cut = NoCut
    /\ env = ActivityEnv
    /\ runs = OneRun

SpecActivity == InitActivity /\ [][Next]_vars

TargetActivityFields == {TARGET_ACTIVITY_FIELDS[i] : i \in 1..Len(TARGET_ACTIVITY_FIELDS)}

\* the activity list being built, or the one the pull request carries
ActivitiesAt ==
    IF pc = "sub" /\ todo[1] = "activity" THEN hold
    ELSE IF "activity_data" \in DOMAIN cur THEN cur.activity_data.list
    ELSE <<>>

\* one raw activity of the page is taken
ActivityStep == pc = "sub" /\ todo[1] = "activity" /\ subpos' = subpos + 1 /\ subpos > 0

\* C21 as stated, its last part: a raw activity with neither update nor
\* approval leaves no entry, so every entry of activity_data carries a field
CE_C21_NoEntryWithoutFields ==
    \A i \in 1..Len(ActivitiesAt) : DOMAIN ActivitiesAt[i] # {}

\* C21, amended: a pull request in range starts with the activity sub-fetch,
\* whatever its fields; each raw activity of each page adds exactly one
\* entry, the raw activity cut down to update and approval with the raw
\* values (the empty entry when it has neither); and activity_data is the
\* list so built, set when the sub-paginator has no page left
Thm_C21_OneEntryPerRawActivity ==
    /\ [](\A i \in 1..Len(ActivitiesAt) : DOMAIN ActivitiesAt[i] \subseteq TargetActivityFields)
    /\ [][(args.category = CATEGORY_PULL_REQUEST /\ pc = "values"
              /\ pc' \notin {"values", "groups", "done", "failed"})
            => /\ pc' = "sub"
               /\ todo' = <<"activity">>
               /\ subpg' = pull_activities(cur'.id)
               /\ cur'.activity_data = PyList(<<>>)]_vars
    /\ [][ActivityStep
            => \E keys \in env.activities :
                  LET raw == [f \in keys |-> subpg.data.values[subpos].n]
                  IN  hold' = Append(hold, [f \in keys \cap TargetActivityFields |-> raw[f]])]_vars
    /\ [][(pc = "sub" /\ todo[1] = "activity" /\ pc' # "sub")
            => \/ pc' = "failed"
               \/ /\ pc' = "fields"
                  /\ cur'.activity_data = PyList(hold)
                  /\ ~HasNext(subpg.data) \/ subpg.pc # "suspended"]_vars

\* a yielded pull request whose two activities were a comment and an approval
Wit_C21_EmptyEntryThenApproval ==
    /\ pc = "yield"
    /\ args.category = CATEGORY_PULL_REQUEST
    /\ Len(cur.activity_data.list) = 2
    /\ DOMAIN cur.activity_data.list[1] = {}
    /\ DOMAIN cur.activity_data.list[2] = {"approval"}

----------------------------------------------------------------------------
(* SpecDates: fetch called with or without its dates, on an upstream whose  *)
(* items may be dated later than DEFAULT_LAST_DATETIME                      *)

DatesEnv ==
    [raw_users |-> {NoUser},
     activities |-> {{"update", "comment"}},
     stable |-> FALSE,
     last_date |-> MaxDate + 1,
     list_pages |-> 1,
     page_len |-> MaxPageLen,
     sub_pages |-> MaxSubPages,
     sub_len |-> MaxSubLen]

\* Bitbucket.fetch: the arguments fetch_items gets, and the dates as passed
fetch(category, from_date, to_date, filter_classified) ==
    [category |-> category,
     from_date |-> IF from_date = NoDate THEN DEFAULT_DATETIME ELSE from_date,
     to_date |-> IF to_date = NoDate THEN DEFAULT_LAST_DATETIME ELSE to_date,
     filter_classified |-> filter_classified,
     passed |-> [from_date |-> from_date, to_date |-> to_date]]

InitDates ==
    /\ pages = <<>>
    /\ npulls = 0
    /\ got = <<>>
    /\ ntransport = 0
    /\ lastReq = NoReq
    /\ fault = NoFault
    /\ cl = LiveClient
    /\ InitUsers
    /\ \E category \in CATEGORIES, from_date \in {NoDate, 1},
          to_date \in {NoDate} \cup (1..MaxDate), filter_classified \in BOOLEAN :
          args = fetch(category, from_date, to_date, filter_classified)
    /\ pg = list_generator(args.category, args.from_date)
    /\ pc = "groups"
    /\ pos = 0
    /\ fld = 0
    /\ cur = NoItem
    /\ todo = <<>>
    /\ subpg = NoSub
    /\ subpos = 0
    /\ hold = <<>>
    /\ raised = ""
    /\ yielded = <<>>
    /\ served = <<>>
    /\ cut = NoCut
    /\ env = DatesEnv
    /\ runs = OneRun

SpecDates == InitDates /\ [][Next]_vars

\* the items of the page up to the first one dated later than to_date
RECURSIVE UpTo(_, _)
UpTo(values, to_date) ==
    IF values = <<>> \/ values[1].updated_on > to_date THEN <<>>
    ELSE <<values[1]>> \o UpTo(Tail(values), to_date)

----------------------------------------------------------------------------
(* SpecTwice: fetch is invoked, runs to its end, and is invoked again with   *)
(* the same arguments against the same upstream                              *)

TwiceEnv ==
    [raw_users |-> {acc \in Accounts : acc.url.profile <= MaxTwiceUsers},
     activities |-> {{"update", "comment"}},
     stable |-> TRUE,
     last_date |-> MaxDate,
     list_pages |-> NListPages,
     page_len |-> 1,
     sub_pages |-> MaxSubPages,
     sub_len |-> MaxSubLen]

InitTwice ==
    /\ pages = <<>>
    /\ npulls = 0
    /\ got = <<>>
    /\ ntransport = 0
    /\ lastReq = NoReq
    /\ fault = NoFault
    /\ cl = LiveClient
    /\ users \in {c \in PriorCaches :
                     \A n \in DOMAIN c :
                        /\ \E raw \in TwiceEnv.raw_users : raw.display_name = n
                        /\ \E acc \in Accounts :
                              acc.display_name = n /\ c[n] = ProfileAt(acc.url)}
    /\ nfetch = [n \in Names |-> IF n \in DOMAIN users THEN 1 ELSE 0]
    /\ nok = nfetch
    /\ requested = {[profile |-> users[n].profile_text_of] : n \in DOMAIN users}
    /\ lastCall = NoCall
    /\ args \in [category : CATEGORIES, from_date : {1}, to_date : 1..MaxDate,
                 filter_classified : {FALSE}]
    /\ pg = list_generator(args.category, args.from_date)
    /\ pc = "groups"
    /\ pos = 0
    /\ fld = 0
    /\ cur = NoItem
    /\ todo = <<>>
    /\ subpg = NoSub
    /\ subpos = 0
    /\ hold = <<>>
    /\ raised = ""
    /\ yielded = <<>>
    /\ served = <<>>
    /\ cut = NoCut
    /\ env = TwiceEnv
    /\ runs = OneRun

\* Bitbucket.fetch is called again with the same arguments once the first
\* invocation has ended: new generators, the same or a new BitbucketClient,
\* and the class-level BitbucketClient._users as the first invocation left it
Refetch ==
    /\ env.stable
    /\ runs.run = 1
    /\ pc \in {"done", "failed"}
    /\ runs' = [runs EXCEPT !.run = 2, !.first = runs.ids, !.first_end = pc, !.ids = <<>>]
    /\ \E exchange \in {Ok(t) : t \in Tokens} : cl' \in {cl, constructed(FALSE, exchange)}
    /\ pg' = list_generator(args.category, args.from_date)
    /\ pc' = "groups"
    /\ pos' = 0
    /\ fld' = 0
    /\ cur' = NoItem
    /\ todo' = <<>>
    /\ subpg' = NoSub
    /\ subpos' = 0
    /\ hold' = <<>>
    /\ raised' = ""
    /\ yielded' = <<>>
    /\ served' = <<>>
    /\ cut' = NoCut
    /\ UNCHANGED <<pages, npulls, got, ntransport, lastReq, fault, userVars, args, env>>

NextTwice == Next \/ Refetch

SpecTwice == InitTwice /\ [][NextTwice]_vars

\* C19: against a stable upstream the second invocation, whatever the first
\* left in the user cache and whichever client runs it, yields at every
\* moment a prefix of the identifiers the first yielded, and at its end the
\* same sequence, ending the same way
Thm_C19_SecondRunYieldsSameIdentifiers ==
    runs.run = 2 =>
        /\ IsPrefix(runs.ids, runs.first)
        /\ pc \in {"done", "failed"} => runs.ids = runs.first /\ pc = runs.first_end

Wit_C19_SecondRunSkipsCachedProfile ==
    /\ runs.run = 2
    /\ pc = "done"
    /\ Len(runs.ids) = 2
    /\ ~args.filter_classified
    /\ users # [k \in {} |-> 0]
    /\ cl # LiveClient

----------------------------------------------------------------------------
(* SpecClient: one BitbucketClient, from its construction, its fetch calls  *)
(* taken one call of the body at a time                                     *)

\* what the token exchange of _extract_access_token may give: a token, an
\* exception of requests.post, the KeyError of a response without a token
Exchanges == {Ok(t) : t \in Tokens} \cup {Raise("ConnectionError"), Raise("KeyError")}

\* the requests the callers hand to fetch
ClientRequests ==
    {Req(NextUrl(i), None) : i \in 1..NListPages} \cup {Req(ProfileUrl(1), None)}

InitClient ==
    /\ pages = <<>>
    /\ pg = NoSub
    /\ ntransport = 0
    /\ lastReq = NoReq
    /\ fault = NoFault
    /\ cl = NoClient
    /\ npulls = 0
    /\ got = <<>>
    /\ InitUsers
    /\ IdleFetch

\* BitbucketClient(...) is constructed, live or from an archive
Construct ==
    /\ cl.state = "none"
    /\ \E from_archive \in BOOLEAN, exchange \in Exchanges :
          cl' = constructed(from_archive, exchange)
    /\ UNCHANGED <<pages, pg, ntransport, lastReq, fault, npulls, got>>
    /\ UNCHANGED <<userVars, fetchVars>>

\* a caller enters fetch
FetchCall ==
    /\ cl.state = "ready"
    /\ cl.calls < MaxCalls
    /\ cl' = begin(cl)
    /\ UNCHANGED <<pages, pg, ntransport, lastReq, fault, npulls, got>>
    /\ UNCHANGED <<userVars, fetchVars>>

NextStep == IF cl.state = "infetch" THEN fetch_steps(cl.from_archive)[cl.step] ELSE "none"

\* self.sleep_for_rate_limit(): returns (after sleeping, when due) or raises
Consult ==
    /\ NextStep = "sleep_for_rate_limit"
    /\ \E outcome \in {Ok(None), Raise("RateLimitError")} : cl' = step(cl, outcome)
    /\ UNCHANGED <<pages, pg, ntransport, lastReq, fault, npulls, got>>
    /\ UNCHANGED <<userVars, fetchVars>>

\* super().fetch(...): the request goes out, a response comes back or it raises
SuperFetch ==
    /\ NextStep = "super_fetch"
    /\ \E req \in ClientRequests, outcome \in {Ok(None)} \cup Failures :
          /\ Wire(req, outcome)
          /\ cl' = step(cl, outcome)
    /\ UNCHANGED <<pages, pg, npulls, got>>
    /\ UNCHANGED <<userVars, fetchVars>>

\* self.update_rate_limit(response), then `return response`
Update ==
    /\ NextStep = "update_rate_limit"
    /\ cl' = step(cl, Ok(None))
    /\ UNCHANGED <<pages, pg, ntransport, lastReq, fault, npulls, got>>
    /\ UNCHANGED <<userVars, fetchVars>>

NextClient == Construct \/ FetchCall \/ Consult \/ SuperFetch \/ Update

SpecClient == InitClient /\ [][NextClient]_vars

RECURSIVE Prefixes(_)
Prefixes(seq) ==
    IF seq = <<>> THEN {<<>>} ELSE {seq} \cup Prefixes(SubSeq(seq, 1, Len(seq) - 1))

\* what one live fetch may do, in order, and where it may leave by an exception
LiveRuns ==
    Prefixes(<<"consult", "request", "update", "return">>)
        \cup {<<"consult", "raise">>, <<"consult", "request", "raise">>}

\* what one replayed fetch may do
ReplayRuns == Prefixes(<<"request", "return">>) \cup {<<"request", "raise">>}

\* C16: a live fetch consults the rate-limit tracker, then sends the request,
\* then updates the tracker from the response, then returns it; the tracker
\* is updated once for every response and never for a request that raised;
\* a client replaying from an archive neither consults nor updates
Thm_C16_RateLimitProtocolOrder ==
    cl.state \in {"ready", "infetch"} =>
        /\ cl.trace \in (IF cl.from_archive THEN ReplayRuns ELSE LiveRuns)
        /\ cl.from_archive => cl.nconsult = 0 /\ cl.nupdate = 0
        /\ ~cl.from_archive =>
              /\ cl.nrequest <= cl.nconsult
              /\ cl.nupdate <= cl.nresponse
              /\ cl.state = "ready" => cl.nupdate = cl.nresponse
        /\ cl.nresponse <= cl.nrequest

Wit_C16_LiveReturnAfterFailedRequest ==
    /\ cl.state = "ready"
    /\ ~cl.from_archive
    /\ cl.trace = <<"consult", "request", "update", "return">>
    /\ cl.nrequest = 2
    /\ cl.nresponse = 1
    /\ cl.nupdate = 1

\* C18: the token exchange runs once, at construction, and only for a client
\* that is not replaying; afterwards the token and the bearer credential
\* never change, whatever the requests give, and every request carries the
\* granted token; a construction whose exchange failed leaves no client and
\* no request
Thm_C18_TokenDerivedOnceAtConstruction ==
    /\ [][cl.state # "none" =>
             /\ cl'.access_token = cl.access_token
             /\ cl'.bearer = cl.bearer
             /\ cl'.exchanges = cl.exchanges]_vars
    /\ [](/\ cl.exchanges = (IF cl.state # "none" /\ ~cl.from_archive THEN 1 ELSE 0)
          /\ cl.state = "broken" => cl.calls = 0 /\ cl.nrequest = 0 /\ ntransport = 0
          /\ (cl.state \in {"ready", "infetch"} /\ ~cl.from_archive) =>
                /\ cl.access_token \in Tokens
                /\ cl.bearer = cl.access_token
                /\ cl.carried \subseteq {cl.access_token}
          /\ cl.from_archive => cl.access_token = NoToken)

Wit_C18_TokenKeptAfterHTTPError ==
    /\ cl.state = "ready"
    /\ cl.access_token = 2
    /\ cl.calls = MaxCalls
    /\ cl.carried = {2}
    /\ fault # NoFault
    /\ fault.error = "HTTPError"
    /\ cl.trace = <<"consult", "request", "update", "return">>

====
